---- MODULE Spec2Model ----
(***************************************************************************)
(* DelayedCore of ZapSmtp (package ZapSmtp, delayedCore.go): a zapcore.Core *)
(* that queues encoded log entries and hands them to its WriteSyncer in one *)
(* payload, on a timer, on an explicit Sync, or inline for levels above     *)
(* Error.  The model follows the Go source statement by statement:          *)
(*   - caller threads call Write and Sync concurrently;                     *)
(*   - every arming Write starts one goroutine that waits on c.timer.C and  *)
(*     then calls Sync, posting a Sync error on errCh (capacity 2);         *)
(*   - encoded entries live in pooled buffers (zap's buffer.Pool): Sync     *)
(*     calls buf.Free() on every queued buffer while it builds the payload, *)
(*     and EncodeEntry takes its buffer from that pool.                     *)
(***************************************************************************)
EXTENDS Integers, Sequences, FiniteSets, TLC

\* ---------------------------------------------------------------- bounds
MaxWrites == 2      \* Write calls in one behaviour (entry ids 1..MaxWrites)
MaxFails == 2       \* sink failures in one behaviour (error ids 1..MaxFails)
MaxDelay == 1       \* delays offered to NewDelayedCore are 0..MaxDelay
MaxPool == 1        \* copies of one buffer the pool keeps (sync.Pool may drop)

\* ------------------------------------------------------ program constants
DebugLevel == -1
InfoLevel == 0
WarnLevel == 1
ErrorLevel == 2
DPanicLevel == 3
Ceiling == 1000     \* queued entries that make the timer fire at once
ErrChCap == 2       \* capacity of errCh
EncodeError == 0    \* the error of a failed EncodeEntry (sink errors are 1..)

Callers == {-1, -2}                \* the caller threads
Routines == 1..(MaxWrites + 1)    \* goroutine k belongs to arming k; the last
                                  \* one to the arming CeilingInit starts from
Threads == Callers \cup Routines
BufIds == 1..MaxWrites
Levels == {DebugLevel, InfoLevel, WarnLevel, DPanicLevel}
Delays == 0..MaxDelay
None == "none"
Unlocked == 0                      \* c.mutex held by no thread

\* The level enablers the core is built with (TestDelayedCore): InfoLevel
\* accepts, WarnLevel is the priority enabler.  zapcore.Level.Enabled(l) is
\* l >= level.
Enabled(lvl) == lvl >= InfoLevel
PriorityEnabled(lvl) == lvl >= WarnLevel

\* zapcore.Level.Enabled: the enabler min accepts the levels from min up.
LevelEnabled(min, lvl) == lvl >= min

VARIABLES
    core,              \* "new" before construction, then "ok" or "err"
    delay,             \* c.delay
    delayPriority,     \* c.delayPriority
    messages,          \* c.messages: queued buffers (standard)
    messagesPriority,  \* c.messagesPriority: queued buffers (priority)
    mutex,             \* Unlocked or the thread holding c.mutex
    timer,             \* c.timer: 0 (nil) or the id of the current timer
    sinceStarted,      \* time.Since(c.sinceStarted), up to MaxDelay
    timers,            \* every time.Timer created: time left, active, channel
    errCh,             \* c.errCh: buffered channel of Sync errors
    bytes,             \* contents of each pooled buffer: the entry id encoded
    pool,              \* zap's buffer pool: copies of each buffer it holds
    nBuf,              \* buffers allocated so far
    nWrites,           \* Write calls made so far (the last entry id)
    nArm,              \* timers armed so far (the last timer id)
    nFails,            \* sink failures so far (the last error id)
    th,                \* every thread's position and locals
    hist,              \* history of the run, read by the properties only
    checked,           \* one call of Check: its inputs and what it returned
    derived            \* the core With returned (clone), once it was called

vars == <<core, delay, delayPriority, messages, messagesPriority, mutex, timer,
          sinceStarted, timers, errCh, bytes, pool, nBuf, nWrites, nArm,
          nFails, th, hist, checked, derived>>

\* ------------------------------------------------------------- helpers
\* A time.Timer: the time left until it fires (0: it is due), whether it is
\* still to fire, and whether its channel C (capacity 1) holds a value.
NoTimer == [left |-> 0, active |-> FALSE, chan |-> FALSE]

Idle == [pc |-> "idle", ctx |-> None, lvl |-> InfoLevel, ent |-> 0, buf |-> 0,
         startRoutine |-> 0, tm |-> 0, msg |-> <<>>, acc |-> <<>>,
         ret |-> <<>>, op |-> None, snap |-> {}, dsnap |-> {}]

Unborn == [Idle EXCEPT !.pc = "g_none"]

SeqSet(s) == {s[i] : i \in 1..Len(s)}

\* The pieces of a payload.
PriorityHeader == [k |-> "=== Priority Log ===\n", v |-> 0]
StandardHeader == [k |-> "=== Standard Log ===\n", v |-> 0]
Newline == [k |-> "\n", v |-> 0]
EntryBytes(e) == [k |-> "entry", v |-> e]

BufBytes(q, content) == [i \in 1..Len(q) |-> EntryBytes(content[q[i]])]

\* The entries of a payload, in the order they appear in it.
EntriesOf(msg) ==
    LET sel == SelectSeq(msg, LAMBDA x : x.k = "entry")
    IN [i \in 1..Len(sel) |-> sel[i].v]

\* A payload in which both headers are always written and the priority
\* section has no closing newlines.
BuildMsgPlain(prio, std, content) ==
    <<PriorityHeader>> \o BufBytes(prio, content)
    \o <<StandardHeader>> \o BufBytes(std, content)

\* Sync, lines 188-210: the payload built from the two queues.
BuildMsg(prio, std, content) ==
    (IF Len(prio) > 0
        THEN <<PriorityHeader>> \o BufBytes(prio, content) \o <<Newline, Newline>>
        ELSE <<>>)
    \o
    (IF Len(std) > 0
        THEN <<StandardHeader>> \o BufBytes(std, content)
        ELSE <<>>)

\* buf.Free() for every buffer of a queue (lines 196, 208): the buffer goes
\* back to the pool, which keeps at most MaxPool copies of it.
FreeAll(q, p) ==
    LET times(b) == Cardinality({i \in 1..Len(q) : q[i] = b})
    IN [b \in SeqSet(q) |->
          IF p[b] + 1 >= MaxPool THEN MaxPool
          ELSE IF p[b] + times(b) < MaxPool THEN p[b] + times(b) ELSE MaxPool]
       @@ p

\* No call of Check is looked at.
NoCheck == [enab |-> InfoLevel, prio |-> WarnLevel, lvl |-> InfoLevel,
            ce |-> <<>>, out |-> <<>>, done |-> FALSE]

\* The WriteSyncer the core was built with (c.out).
Out == "out"

\* No core was derived with With yet.  The fields of a derived core are the
\* fields of DelayedCore (lines 22-39); a nil slice is <<>>, a nil timer is
\* 0 and a nil channel is None.
NoDerived == [made |-> FALSE, LevelEnabler |-> InfoLevel, priority |-> InfoLevel,
              out |-> None, delay |-> 0, delayPriority |-> 0,
              messages |-> <<>>, messagesPriority |-> <<>>, timer |-> 0,
              errCh |-> None,
              waiting |-> 0, blocked |-> {}, written |-> {}, sent |-> <<>>,
              ret |-> <<>>]

\* ---------------------------------------------------------------- Init
Init ==
    /\ checked = NoCheck
    /\ derived = NoDerived
    /\ core = "new"
    /\ delay = 0
    /\ delayPriority = 0
    /\ messages = <<>>
    /\ messagesPriority = <<>>
    /\ mutex = Unlocked
    /\ timer = 0
    /\ sinceStarted = 0
    /\ timers = [k \in Routines |-> NoTimer]
    /\ errCh = <<>>
    /\ bytes = [b \in BufIds |-> 0]
    /\ pool = [b \in BufIds |-> 0]
    /\ nBuf = 0
    /\ nWrites = 0
    /\ nArm = 0
    /\ nFails = 0
    /\ th = [t \in Threads |-> IF t \in Callers THEN Idle ELSE Unborn]
    /\ hist = [args |-> <<0, 0>>, accPrio |-> <<>>, accStd |-> <<>>,
               dropped |-> {}, failedWrite |-> {}, failed |-> {}, bg |-> {},
               returned |-> {}, twice |-> {}, lost |-> {}, emptySyncs |-> 0,
               explicit |-> FALSE, odd |-> FALSE, synced |-> {}, encFailed |-> {},
               handed |-> <<>>]

\* ------------------------------------------------------- NewDelayedCore
\* A constructor that would also reject equal delays (d <= dp).
NewDelayedCoreStrict(d, dp) ==
    /\ core = "new"
    /\ IF d <= dp
          THEN /\ core' = "err"
               /\ UNCHANGED <<delay, delayPriority>>
          ELSE /\ core' = "ok"
               /\ delay' = d
               /\ delayPriority' = dp
    /\ messages' = <<>>
    /\ messagesPriority' = <<>>
    /\ errCh' = <<>>
    /\ hist' = [hist EXCEPT !.args = <<d, dp>>]
    /\ UNCHANGED <<checked, derived, mutex, timer, sinceStarted, timers, bytes, pool, nBuf,
                   nWrites, nArm, nFails, th>>

\* Lines 44-71.  A core is produced unless delay < delayPriority.
NewDelayedCore(d, dp) ==
    /\ core = "new"
    /\ IF d < dp
          THEN /\ core' = "err"
               /\ UNCHANGED <<delay, delayPriority>>
          ELSE /\ core' = "ok"
               /\ delay' = d
               /\ delayPriority' = dp
    /\ messages' = <<>>
    /\ messagesPriority' = <<>>
    /\ errCh' = <<>>
    /\ hist' = [hist EXCEPT !.args = <<d, dp>>]
    /\ UNCHANGED <<checked, derived, mutex, timer, sinceStarted, timers, bytes, pool, nBuf,
                   nWrites, nArm, nFails, th>>

\* ------------------------------------------------------------ returns
\* What a thread does with the value its Sync returned.
\*   explicit call: the caller has the value (line 177);
\*   inline call of Write (lines 153-170): an error is returned at once,
\*     otherwise the goroutine of this Write's arming is started;
\*   goroutine (lines 165-168): an error is to be sent on errCh.
SyncReturns(t, err) ==
    LET me == th[t] IN
    CASE me.ctx = "sync" ->
           [th EXCEPT ![t] = [Idle EXCEPT !.ret = err, !.op = "sync",
                                          !.snap = me.snap]]
      [] me.ctx = "write" ->
           IF err # <<>> \/ me.startRoutine = 0
              THEN [th EXCEPT ![t] = [Idle EXCEPT !.ret = err, !.op = "write",
                                                 !.lvl = me.lvl, !.ent = me.ent]]
              ELSE [th EXCEPT ![t] = [Idle EXCEPT !.op = "write",
                                                 !.lvl = me.lvl, !.ent = me.ent],
                              ![me.startRoutine] = [Unborn EXCEPT !.pc = "g_start"]]
      [] OTHER ->
           IF err # <<>>
              THEN [th EXCEPT ![t] = [Unborn EXCEPT !.pc = "g_send", !.acc = err]]
              ELSE [th EXCEPT ![t] = [Unborn EXCEPT !.pc = "g_done"]]

\* The history of values returned to callers (explicit Sync, or the inline
\* Sync of a Write): which errors of background flushes were returned, and
\* which of them more than once.
Returned(t, err, h) ==
    IF th[t].ctx \in {"sync", "write"}
       THEN [h EXCEPT !.returned = @ \cup SeqSet(err),
                      !.twice = @ \cup (h.returned \cap SeqSet(err))]
       ELSE h

\* The errors that were on errCh when thread t began to drain it and that
\* no thread holds and no caller was given when t's Sync returns err.
Lost(t, err) ==
    th[t].dsnap \ (SeqSet(err) \cup hist.returned
                   \cup UNION {SeqSet(th[u].acc) : u \in Threads \ {t}})

\* The ids of the errors waiting on errCh.
RECURSIVE Pending(_)
Pending(ch) == IF ch = <<>> THEN {} ELSE SeqSet(Head(ch)) \cup Pending(Tail(ch))

\* ---------------------------------------------------------------- Write
\* A Write that would go on with the buffer after an encoder error.
EncodeEntryBuffering(t, lvl, encOk, b) ==
    /\ core = "ok"
    /\ t \in Callers
    /\ th[t].pc = "idle"
    /\ nWrites < MaxWrites
    /\ nWrites' = nWrites + 1
    /\ IF encOk
          THEN /\ \/ b = nBuf + 1 /\ nBuf' = b /\ pool' = pool
                  \/ b <= nBuf /\ pool[b] > 0 /\ nBuf' = nBuf
                     /\ pool' = [pool EXCEPT ![b] = @ - 1]
               /\ bytes' = [bytes EXCEPT ![b] = nWrites + 1]
               /\ th' = [th EXCEPT ![t] = [Idle EXCEPT !.pc = "w_lock",
                             !.ctx = "write", !.op = "write", !.lvl = lvl,
                             !.ent = nWrites + 1, !.buf = b]]
          ELSE /\ b = nBuf + 1 /\ nBuf' = b /\ pool' = pool
               /\ bytes' = [bytes EXCEPT ![b] = nWrites + 1]
               /\ th' = [th EXCEPT ![t] = [Idle EXCEPT !.pc = "w_lock",
                             !.ctx = "write", !.op = "write", !.lvl = lvl,
                             !.ent = nWrites + 1, !.buf = b]]
    /\ hist' = [hist EXCEPT !.odd = @ \/ lvl > ErrorLevel
                                      \/ ~(Enabled(lvl) \/ PriorityEnabled(lvl)),
                            !.encFailed = IF encOk THEN @ ELSE @ \cup {nWrites + 1}]
    /\ UNCHANGED <<checked, derived, core, delay, delayPriority, messages, messagesPriority,
                   mutex, timer, sinceStarted, timers, errCh, nArm,
                   nFails>>

\* Lines 105-109: EncodeEntry.  An encoder error is returned at once.  The
\* encoder takes its buffer from the pool: a new buffer, or one that was
\* given back by Free (which a queue may still hold).
EncodeEntry(t, lvl, encOk, b) ==
    /\ core = "ok"
    /\ t \in Callers
    /\ th[t].pc = "idle"
    /\ nWrites < MaxWrites
    /\ nWrites' = nWrites + 1
    /\ IF encOk
          THEN /\ \/ b = nBuf + 1 /\ nBuf' = b /\ pool' = pool
                  \/ b <= nBuf /\ pool[b] > 0 /\ nBuf' = nBuf
                     /\ pool' = [pool EXCEPT ![b] = @ - 1]
               /\ bytes' = [bytes EXCEPT ![b] = nWrites + 1]
               /\ th' = [th EXCEPT ![t] = [Idle EXCEPT !.pc = "w_lock",
                             !.ctx = "write", !.op = "write", !.lvl = lvl,
                             !.ent = nWrites + 1, !.buf = b]]
          ELSE /\ b = nBuf + 1
               /\ th' = [th EXCEPT ![t] = [Idle EXCEPT !.ret = <<EncodeError>>,
                             !.op = "write", !.lvl = lvl, !.ent = nWrites + 1]]
               /\ UNCHANGED <<bytes, pool, nBuf>>
    /\ hist' = [hist EXCEPT !.odd = @ \/ lvl > ErrorLevel
                                      \/ ~(Enabled(lvl) \/ PriorityEnabled(lvl)),
                            !.encFailed = IF encOk THEN @ ELSE @ \cup {nWrites + 1}]
    /\ UNCHANGED <<checked, derived, core, delay, delayPriority, messages, messagesPriority,
                   mutex, timer, sinceStarted, timers, errCh, nArm,
                   nFails>>

\* time.Timer.Reset(d): the timer will fire d from now (at once if d <= 0).
Reset(tms, k, d) ==
    [tms EXCEPT ![k] = [@ EXCEPT !.left = IF d > 0 THEN d ELSE 0,
                                 !.active = TRUE]]

\* A duration that would count the priority delay from the priority Write.
RemainingDurationRestarted(since) == delayPriority

\* Line 136: what is left of the priority delay, counted from the arming.
RemainingDuration(since) == delayPriority - since

\* A Write that would never call Sync itself.
SyncsInlineNever(lvl) == FALSE

\* Line 153: a Write above ErrorLevel calls Sync itself.
SyncsInline(lvl) == lvl > ErrorLevel

\* Lines 111-148, the critical section of Write, and what follows it when
\* the level is not above Error (lines 160-173).
WriteLocked(t) ==
    LET me == th[t]
        empty == Len(messages) = 0 /\ Len(messagesPriority) = 0
        startRoutine == IF empty THEN nArm + 1 ELSE 0
        tm == IF empty THEN nArm + 1 ELSE timer
        since == IF empty THEN 0 ELSE sinceStarted
        armed == IF empty
                   THEN [timers EXCEPT ![tm] = [left |-> delay, active |-> TRUE,
                                                chan |-> FALSE]]
                   ELSE timers
        remainingDuration == RemainingDuration(since)
        isPrio == PriorityEnabled(me.lvl)
        isStd == ~isPrio /\ Enabled(me.lvl)
    IN
    /\ me.pc = "w_lock"
    /\ mutex = Unlocked
    /\ timer' = tm
    /\ sinceStarted' = since
    /\ nArm' = IF empty THEN nArm + 1 ELSE nArm
    /\ timers' = IF Len(messages) + Len(messagesPriority) >= Ceiling
                    THEN Reset(armed, tm, -1)
                    ELSE IF isPrio /\ Len(messagesPriority) = 0
                            THEN Reset(armed, tm, remainingDuration)
                            ELSE armed
    /\ messagesPriority' = IF isPrio THEN Append(messagesPriority, me.buf)
                                     ELSE messagesPriority
    /\ messages' = IF isStd THEN Append(messages, me.buf) ELSE messages
    /\ hist' = [hist EXCEPT
                  !.accPrio = IF isPrio THEN Append(@, me.ent) ELSE @,
                  !.accStd = IF isStd THEN Append(@, me.ent) ELSE @,
                  !.dropped = IF ~isPrio /\ ~isStd THEN @ \cup {me.ent} ELSE @,
                  !.emptySyncs = 0]
    /\ th' = IF SyncsInline(me.lvl)
                THEN [th EXCEPT ![t] = [me EXCEPT !.pc = "s_lock",
                                                 !.startRoutine = startRoutine]]
                ELSE IF startRoutine = 0
                        THEN [th EXCEPT ![t] = [Idle EXCEPT !.op = "write",
                                                 !.lvl = me.lvl, !.ent = me.ent]]
                        ELSE [th EXCEPT ![t] = [Idle EXCEPT !.op = "write",
                                                 !.lvl = me.lvl, !.ent = me.ent],
                                        ![startRoutine] =
                                             [Unborn EXCEPT !.pc = "g_start"]]
    /\ UNCHANGED <<checked, derived, core, delay, delayPriority, mutex, errCh, bytes, pool, nBuf,
                   nWrites, nFails>>

\* ----------------------------------------------------------------- Sync
\* An explicit call of Sync by a caller (line 177).
SyncCall(t) ==
    /\ core = "ok"
    /\ t \in Callers
    /\ th[t].pc = "idle"
    /\ th' = [th EXCEPT ![t] = [Idle EXCEPT !.pc = "s_lock", !.ctx = "sync",
                  !.op = "sync",
                  !.snap = IF \E u \in Callers \ {t} : th[u].ctx = "sync"
                              THEN {} ELSE hist.bg \ hist.returned]]
    /\ hist' = [hist EXCEPT !.explicit = TRUE]
    /\ UNCHANGED <<checked, derived, core, delay, delayPriority, messages, messagesPriority,
                   mutex, timer, sinceStarted, timers, errCh, bytes, pool,
                   nBuf, nWrites, nArm, nFails>>

\* A Sync without the check of lines 183-186: it builds and sends a payload
\* also when both queues are empty.
SyncLockNoEmptyCheck(t) ==
    /\ th[t].pc = "s_lock"
    /\ mutex = Unlocked
    /\ mutex' = t
    /\ pool' = FreeAll(messages, FreeAll(messagesPriority, pool))
    /\ th' = [th EXCEPT ![t] = [@ EXCEPT !.pc = "s_write",
                  !.msg = BuildMsg(messagesPriority, messages, bytes)]]
    /\ hist' = [hist EXCEPT !.emptySyncs =
                   IF Len(messagesPriority) = 0 /\ Len(messages) = 0
                      /\ th[t].ctx = "sync" /\ @ < 2 THEN @ + 1 ELSE @]
    /\ UNCHANGED <<checked, derived, core, delay, delayPriority, messages, messagesPriority,
                   timer, sinceStarted, timers, errCh, bytes, nBuf,
                   nWrites, nArm, nFails>>

\* A Sync that would release the mutex once the payload is built, before it
\* calls the sink.
SyncLockReleasing(t) ==
    /\ th[t].pc = "s_lock"
    /\ mutex = Unlocked
    /\ IF Len(messagesPriority) = 0 /\ Len(messages) = 0
          THEN /\ th' = SyncReturns(t, <<>>)
               /\ hist' = [hist EXCEPT !.emptySyncs =
                              IF th[t].ctx = "sync" /\ @ < 2 THEN @ + 1 ELSE @]
               /\ UNCHANGED <<mutex, pool>>
          ELSE /\ mutex' = Unlocked
               /\ pool' = FreeAll(messages, FreeAll(messagesPriority, pool))
               /\ th' = [th EXCEPT ![t] = [@ EXCEPT !.pc = "s_write",
                             !.msg = BuildMsg(messagesPriority, messages, bytes)]]
               /\ hist' = [hist EXCEPT !.emptySyncs = 0]
    /\ UNCHANGED <<checked, derived, core, delay, delayPriority, messages,
                   messagesPriority, timer, sinceStarted, timers, errCh, bytes,
                   nBuf, nWrites, nArm, nFails>>

\* Lines 179-210: take the mutex; return nil on empty queues; otherwise build
\* the payload, freeing every queued buffer on the way.
SyncLock(t) ==
    /\ th[t].pc = "s_lock"
    /\ mutex = Unlocked
    /\ IF Len(messagesPriority) = 0 /\ Len(messages) = 0
          THEN /\ th' = SyncReturns(t, <<>>)
               /\ hist' = [hist EXCEPT !.emptySyncs =
                              IF th[t].ctx = "sync" /\ @ < 2 THEN @ + 1 ELSE @]
               /\ UNCHANGED <<mutex, pool>>
          ELSE /\ mutex' = t
               /\ pool' = FreeAll(messages, FreeAll(messagesPriority, pool))
               /\ th' = [th EXCEPT ![t] = [@ EXCEPT !.pc = "s_write",
                             !.msg = BuildMsg(messagesPriority, messages, bytes)]]
               /\ hist' = [hist EXCEPT !.emptySyncs = 0]
    /\ UNCHANGED <<checked, derived, core, delay, delayPriority, messages, messagesPriority,
                   timer, sinceStarted, timers, errCh, bytes, nBuf,
                   nWrites, nArm, nFails>>

\* A failing Sync that would take the first pending error off errCh and
\* return it with its own.
SinkFailsTakingPending(t) ==
    LET got == IF errCh = <<>> THEN <<>> ELSE Head(errCh)
        err == <<nFails + 1>> \o got
    IN
    /\ nFails < MaxFails
    /\ nFails' = nFails + 1
    /\ mutex' = Unlocked
    /\ errCh' = IF errCh = <<>> THEN <<>> ELSE Tail(errCh)
    /\ th' = [SyncReturns(t, err) EXCEPT
                ![t] = IF t \in Callers THEN [@ EXCEPT !.dsnap = Pending(errCh)]
                                        ELSE @]
    /\ hist' = [Returned(t, err, hist) EXCEPT
                  !.failed = @ \cup SeqSet(hist.accPrio) \cup SeqSet(hist.accStd),
                  !.failedWrite = IF th[t].pc = "s_write"
                                     THEN @ \cup SeqSet(hist.accPrio)
                                            \cup SeqSet(hist.accStd)
                                     ELSE @,
                  !.bg = IF th[t].ctx = "bg" THEN @ \cup {nFails + 1} ELSE @,
                  !.synced = IF th[t].pc = "s_flush"
                                THEN @ \cup SeqSet(hist.accPrio)
                                       \cup SeqSet(hist.accStd)
                                ELSE @,
                  !.handed = IF th[t].pc = "s_write"
                                THEN @ \o EntriesOf(th[t].msg)
                                ELSE @]
    /\ UNCHANGED <<checked, derived, core, delay, delayPriority, messages, messagesPriority,
                   timer, sinceStarted, timers, bytes, pool, nBuf,
                   nWrites, nArm>>

\* The failed sink call of the delayed core of package cores: Sync returns
\* the error of sink.Write or sink.Sync with the mutex still locked.
CoresSinkFails(t) ==
    /\ nFails < MaxFails
    /\ nFails' = nFails + 1
    /\ mutex' = mutex
    /\ th' = [SyncReturns(t, <<nFails + 1>>) EXCEPT
                ![t] = IF t \in Callers THEN [@ EXCEPT !.dsnap = Pending(errCh)]
                                        ELSE @]
    /\ hist' = [Returned(t, <<nFails + 1>>, hist) EXCEPT
                  !.failed = @ \cup SeqSet(hist.accPrio) \cup SeqSet(hist.accStd),
                  !.failedWrite = IF th[t].pc = "s_write"
                                     THEN @ \cup SeqSet(hist.accPrio)
                                            \cup SeqSet(hist.accStd)
                                     ELSE @,
                  !.bg = IF th[t].ctx = "bg" THEN @ \cup {nFails + 1} ELSE @,
                  !.synced = IF th[t].pc = "s_flush"
                                THEN @ \cup SeqSet(hist.accPrio)
                                       \cup SeqSet(hist.accStd)
                                ELSE @,
                  !.handed = IF th[t].pc = "s_write"
                                THEN @ \o EntriesOf(th[t].msg)
                                ELSE @]
    /\ UNCHANGED <<checked, derived, core, delay, delayPriority, messages,
                   messagesPriority, timer, sinceStarted, timers, errCh, bytes,
                   pool, nBuf, nWrites, nArm>>

\* A Sync that would return the error of the sink's Sync without releasing
\* the mutex (and release it after an error of the sink's Write).
SinkFailsLocked(t) ==
    /\ nFails < MaxFails
    /\ nFails' = nFails + 1
    /\ mutex' = IF th[t].pc = "s_flush" THEN mutex ELSE Unlocked
    /\ th' = [SyncReturns(t, <<nFails + 1>>) EXCEPT
                ![t] = IF t \in Callers THEN [@ EXCEPT !.dsnap = Pending(errCh)]
                                        ELSE @]
    /\ hist' = [Returned(t, <<nFails + 1>>, hist) EXCEPT
                  !.failed = @ \cup SeqSet(hist.accPrio) \cup SeqSet(hist.accStd),
                  !.failedWrite = IF th[t].pc = "s_write"
                                     THEN @ \cup SeqSet(hist.accPrio)
                                            \cup SeqSet(hist.accStd)
                                     ELSE @,
                  !.bg = IF th[t].ctx = "bg" THEN @ \cup {nFails + 1} ELSE @,
                  !.synced = IF th[t].pc = "s_flush"
                                THEN @ \cup SeqSet(hist.accPrio)
                                       \cup SeqSet(hist.accStd)
                                ELSE @,
                  !.handed = IF th[t].pc = "s_write"
                                THEN @ \o EntriesOf(th[t].msg)
                                ELSE @]
    /\ UNCHANGED <<checked, derived, core, delay, delayPriority, messages,
                   messagesPriority, timer, sinceStarted, timers, errCh, bytes,
                   pool, nBuf, nWrites, nArm>>

\* The error a failed sink call produces, and the history of it.
SinkFails(t) ==
    /\ nFails < MaxFails
    /\ nFails' = nFails + 1
    /\ mutex' = Unlocked
    /\ th' = [SyncReturns(t, <<nFails + 1>>) EXCEPT
                ![t] = IF t \in Callers THEN [@ EXCEPT !.dsnap = Pending(errCh)]
                                        ELSE @]
    /\ hist' = [Returned(t, <<nFails + 1>>, hist) EXCEPT
                  !.failed = @ \cup SeqSet(hist.accPrio) \cup SeqSet(hist.accStd),
                  !.failedWrite = IF th[t].pc = "s_write"
                                     THEN @ \cup SeqSet(hist.accPrio)
                                            \cup SeqSet(hist.accStd)
                                     ELSE @,
                  !.bg = IF th[t].ctx = "bg" THEN @ \cup {nFails + 1} ELSE @,
                  !.synced = IF th[t].pc = "s_flush"
                                THEN @ \cup SeqSet(hist.accPrio)
                                       \cup SeqSet(hist.accStd)
                                ELSE @,
                  !.handed = IF th[t].pc = "s_write"
                                THEN @ \o EntriesOf(th[t].msg)
                                ELSE @]
    /\ UNCHANGED <<checked, derived, core, delay, delayPriority, messages, messagesPriority,
                   timer, sinceStarted, timers, errCh, bytes, pool, nBuf,
                   nWrites, nArm>>

\* Lines 212-217: c.out.Write(msg); the payload is handed to the sink.
SinkWrite(t, ok) ==
    /\ th[t].pc = "s_write"
    /\ IF ok
          THEN /\ th' = [th EXCEPT ![t] = [@ EXCEPT !.pc = "s_flush"]]
               /\ hist' = [hist EXCEPT !.handed = @ \o EntriesOf(th[t].msg)]
               /\ UNCHANGED <<checked, derived, core, delay, delayPriority, messages,
                              messagesPriority, mutex, timer, sinceStarted,
                              timers, errCh, bytes, pool, nBuf, nWrites,
                              nArm, nFails>>
          ELSE SinkFails(t)

\* A Sync that would leave the queues as they are after a successful flush.
SinkSyncKeeping(t, ok) ==
    /\ th[t].pc = "s_flush"
    /\ IF ok
          THEN /\ mutex' = Unlocked
               /\ th' = [th EXCEPT ![t] = [@ EXCEPT !.pc = "s_drain",
                                                   !.dsnap = Pending(errCh)]]
               /\ hist' = [hist EXCEPT !.synced = @ \cup SeqSet(hist.accPrio)
                                                    \cup SeqSet(hist.accStd)]
               /\ UNCHANGED <<checked, derived, core, delay, delayPriority,
                              messages, messagesPriority, timer,
                              sinceStarted, timers, errCh, bytes, pool, nBuf,
                              nWrites, nArm, nFails>>
          ELSE SinkFails(t)

\* Lines 219-231: c.out.Sync(); on success the queues are cleared and the
\* mutex is released.
SinkSync(t, ok) ==
    /\ th[t].pc = "s_flush"
    /\ IF ok
          THEN /\ messagesPriority' = <<>>
               /\ messages' = <<>>
               /\ mutex' = Unlocked
               /\ th' = [th EXCEPT ![t] = [@ EXCEPT !.pc = "s_drain",
                                                   !.dsnap = Pending(errCh)]]
               /\ hist' = [hist EXCEPT !.accPrio = <<>>, !.accStd = <<>>,
                                       !.failed = {}, !.failedWrite = {},
                                       !.synced = @ \cup SeqSet(hist.accPrio)
                                                    \cup SeqSet(hist.accStd)]
               /\ UNCHANGED <<checked, derived, core, delay, delayPriority, timer,
                              sinceStarted, timers, errCh, bytes, pool, nBuf,
                              nWrites, nArm, nFails>>
          ELSE SinkFails(t)

\* Lines 233-243: one receive of the draining loop.
DrainRecv(t) ==
    /\ th[t].pc = "s_drain"
    /\ errCh # <<>>
    /\ errCh' = Tail(errCh)
    /\ th' = [th EXCEPT ![t] = [@ EXCEPT !.acc = @ \o Head(errCh)]]
    /\ UNCHANGED <<checked, derived, core, delay, delayPriority, messages, messagesPriority,
                   mutex, timer, sinceStarted, timers, bytes, pool, nBuf,
                   nWrites, nArm, nFails, hist>>

\* A Sync that would return nil after draining, whatever it received.
DrainDoneNil(t) ==
    /\ th[t].pc = "s_drain"
    /\ errCh = <<>>
    /\ th' = SyncReturns(t, <<>>)
    /\ hist' = [Returned(t, <<>>, hist) EXCEPT
                  !.lost = IF th[t].ctx = "bg" THEN @
                                               ELSE @ \cup Lost(t, <<>>)]
    /\ UNCHANGED <<checked, derived, core, delay, delayPriority, messages, messagesPriority,
                   mutex, timer, sinceStarted, timers, errCh, bytes, pool,
                   nBuf, nWrites, nArm, nFails>>

\* A Sync that would return what it drained and leave it on errCh as well.
DrainDoneKeeping(t) ==
    /\ th[t].pc = "s_drain"
    /\ errCh = <<>>
    /\ errCh' = IF th[t].acc = <<>> THEN <<>> ELSE <<th[t].acc>>
    /\ th' = SyncReturns(t, th[t].acc)
    /\ hist' = [Returned(t, th[t].acc, hist) EXCEPT
                  !.lost = IF th[t].ctx = "bg" THEN @
                                               ELSE @ \cup Lost(t, th[t].acc)]
    /\ UNCHANGED <<checked, derived, core, delay, delayPriority, messages, messagesPriority,
                   mutex, timer, sinceStarted, timers, bytes, pool,
                   nBuf, nWrites, nArm, nFails>>

\* Lines 240-249: the channel is empty, Sync returns what it collected.
DrainDone(t) ==
    /\ th[t].pc = "s_drain"
    /\ errCh = <<>>
    /\ th' = SyncReturns(t, th[t].acc)
    /\ hist' = [Returned(t, th[t].acc, hist) EXCEPT
                  !.lost = IF th[t].ctx = "bg" THEN @
                                               ELSE @ \cup Lost(t, th[t].acc)]
    /\ UNCHANGED <<checked, derived, core, delay, delayPriority, messages, messagesPriority,
                   mutex, timer, sinceStarted, timers, errCh, bytes, pool,
                   nBuf, nWrites, nArm, nFails>>

\* ------------------------------------------------------ the goroutine
\* Line 163: the goroutine evaluates c.timer (without the mutex).
RoutineStart(g) ==
    /\ g \in Routines
    /\ th[g].pc = "g_start"
    /\ th' = [th EXCEPT ![g] = [@ EXCEPT !.pc = "g_wait", !.tm = timer]]
    /\ UNCHANGED <<checked, derived, core, delay, delayPriority, messages, messagesPriority,
                   mutex, timer, sinceStarted, timers, errCh, bytes, pool,
                   nBuf, nWrites, nArm, nFails, hist>>

\* Lines 163-165: the receive from the timer's channel, then the call of Sync.
RoutineRecv(g) ==
    /\ g \in Routines
    /\ th[g].pc = "g_wait"
    /\ timers[th[g].tm].chan
    /\ timers' = [timers EXCEPT ![th[g].tm] = [@ EXCEPT !.chan = FALSE]]
    /\ th' = [th EXCEPT ![g] = [@ EXCEPT !.pc = "s_lock", !.ctx = "bg"]]
    /\ UNCHANGED <<checked, derived, core, delay, delayPriority, messages, messagesPriority,
                   mutex, timer, sinceStarted, errCh, bytes, pool, nBuf,
                   nWrites, nArm, nFails, hist>>

\* A goroutine that would replace what waits on errCh by its own error.
RoutineSendOverwriting(g) ==
    /\ g \in Routines
    /\ th[g].pc = "g_send"
    /\ errCh' = <<th[g].acc>>
    /\ th' = [th EXCEPT ![g] = [Unborn EXCEPT !.pc = "g_done"]]
    /\ UNCHANGED <<checked, derived, core, delay, delayPriority, messages, messagesPriority,
                   mutex, timer, sinceStarted, timers, bytes, pool, nBuf,
                   nWrites, nArm, nFails, hist>>

\* Lines 166-168: c.errCh <- errSync, which blocks while the channel is full.
RoutineSend(g) ==
    /\ g \in Routines
    /\ th[g].pc = "g_send"
    /\ Len(errCh) < ErrChCap
    /\ errCh' = Append(errCh, th[g].acc)
    /\ th' = [th EXCEPT ![g] = [Unborn EXCEPT !.pc = "g_done"]]
    /\ UNCHANGED <<checked, derived, core, delay, delayPriority, messages, messagesPriority,
                   mutex, timer, sinceStarted, timers, bytes, pool, nBuf,
                   nWrites, nArm, nFails, hist>>

\* ------------------------------------------------------------- time
\* A timer that would fire before its deadline.
TimerFiresEarly(k) ==
    /\ k \in Routines
    /\ timers[k].active
    /\ timers' = [timers EXCEPT ![k] = [@ EXCEPT !.active = FALSE, !.chan = TRUE]]
    /\ UNCHANGED <<checked, derived, core, delay, delayPriority, messages, messagesPriority,
                   mutex, timer, sinceStarted, errCh, bytes, pool, nBuf,
                   nWrites, nArm, nFails, th, hist>>

\* A timer whose deadline has come sends on its channel (capacity 1).
TimerFires(k) ==
    /\ k \in Routines
    /\ timers[k].active
    /\ timers[k].left = 0
    /\ timers' = [timers EXCEPT ![k] = [@ EXCEPT !.active = FALSE, !.chan = TRUE]]
    /\ UNCHANGED <<checked, derived, core, delay, delayPriority, messages, messagesPriority,
                   mutex, timer, sinceStarted, errCh, bytes, pool, nBuf,
                   nWrites, nArm, nFails, th, hist>>

\* One unit of time passes.  time.Since(c.timerStartedAt) is followed up to
\* MaxDelay only: line 136 compares it with delayPriority <= MaxDelay.
Tick ==
    /\ core = "ok"
    /\ sinceStarted' = IF sinceStarted < MaxDelay THEN sinceStarted + 1
                                                  ELSE sinceStarted
    /\ timers' = [k \in Routines |->
                    IF timers[k].active /\ timers[k].left > 0
                       THEN [timers[k] EXCEPT !.left = @ - 1]
                       ELSE timers[k]]
    /\ UNCHANGED <<checked, derived, core, delay, delayPriority, messages, messagesPriority,
                   mutex, timer, errCh, bytes, pool, nBuf, nWrites, nArm,
                   nFails, th, hist>>

\* ------------------------------------------------------------- Next
\* The steps of the program when the threads of C call Write and Sync.
Step(C) ==
    \/ \E d \in Delays, dp \in Delays : NewDelayedCore(d, dp)
    \/ \E t \in C, lvl \in Levels, encOk \in BOOLEAN, b \in BufIds :
          EncodeEntry(t, lvl, encOk, b)
    \/ \E t \in C : WriteLocked(t)
    \/ \E t \in C : SyncCall(t)
    \/ \E t \in Threads : SyncLock(t)
    \/ \E t \in Threads, ok \in BOOLEAN : SinkWrite(t, ok)
    \/ \E t \in Threads, ok \in BOOLEAN : SinkSync(t, ok)
    \/ \E t \in Threads : DrainRecv(t)
    \/ \E t \in Threads : DrainDone(t)
    \/ \E g \in Routines : RoutineStart(g)
    \/ \E g \in Routines : RoutineRecv(g)
    \/ \E g \in Routines : RoutineSend(g)
    \/ \E k \in Routines : TimerFires(k)
    \/ Tick

\* One caller thread, with the goroutines its Writes start.
Next == Step({-1})

Spec == Init /\ [][Next]_vars

\* ------------------------------------------------------------ properties
\* A flush of thread t succeeds in this step: the sink's Write had succeeded
\* and now the sink's Sync succeeds.
FlushSucceeds(t) == th[t].pc = "s_flush" /\ th'[t].pc = "s_drain"

\* C1: when the sink's write and flush of a Sync both succeed, the payload
\* holds every entry accepted since the last successful flush exactly once,
\* the priority entries first, each section in the order the Writes took
\* the mutex.
C1_PayloadIsAccepted ==
    [][\A t \in Threads :
          FlushSucceeds(t) =>
             EntriesOf(th[t].msg) = hist.accPrio \o hist.accStd]_vars

\* C2: after a failed sink write, the next Sync whose sink calls succeed
\* delivers every entry that was queued when the write failed, with the
\* bytes encoded for it: no accepted entry is lost or replaced.
C2_FailedWriteLosesNothing ==
    [][\A t \in Threads :
          FlushSucceeds(t) =>
             hist.failedWrite \subseteq SeqSet(EntriesOf(th[t].msg))]_vars

\* A sink call of thread t fails in this step, and its Sync returns.
FlushFails(t) ==
    /\ th[t].pc \in {"s_write", "s_flush"}
    /\ th'[t].pc \notin {"s_write", "s_flush", "s_drain"}

\* The value a Sync of thread t returned in this step: to its caller, or to
\* the goroutine, which holds it to send it on errCh.
ReturnedValue(t) == IF t \in Callers THEN th'[t].ret ELSE th'[t].acc

\* A queue loses entries in this step.
Shrinks ==
    \/ Len(messages') < Len(messages)
    \/ Len(messagesPriority') < Len(messagesPriority)

\* A failed sink call makes the Sync of thread t return that error, with
\* the queues as they were.
FailsKeeping(t) ==
    FlushFails(t) =>
       /\ ReturnedValue(t) = <<nFails'>>
       /\ nFails' = nFails + 1
       /\ <<messages, messagesPriority>>' = <<messages, messagesPriority>>

\* The first half of C3: a failed sink call makes Sync return that error
\* and leaves the queues alone, and a queue only ever loses entries in a
\* step in which the sink's flush succeeds.
FailedFlushKeepsQueues ==
    [][/\ \A t \in Threads : FailsKeeping(t)
       /\ Shrinks => \E t \in Threads : FlushSucceeds(t)]_vars

\* The payload thread t hands to the sink after this step holds every entry
\* that was queued at the last failed sink call.
Retries(t) ==
    th'[t].pc = "s_write" =>
       hist.failed \subseteq SeqSet(EntriesOf(th'[t].msg))

\* C3: a failed sink write or sink flush makes Sync return that error and
\* leaves both queues as they were; the queues are cleared only after both
\* sink calls succeeded; so every entry queued at the failure is written to
\* the sink again by the next flush.
C3_FailedFlushRetried ==
    [][/\ \A t \in Threads : FailsKeeping(t)
       /\ Shrinks => \E t \in Threads : FlushSucceeds(t)
       /\ \A t \in Threads : Retries(t)]_vars

\* A Write of thread t leaves its critical section in this step.
Appends(t) == th[t].pc = "w_lock" /\ th'[t].pc # "w_lock"

\* The Write of thread t drops its entry in this step: no queue changes and
\* Write returns nil.
Drops(t) ==
    (Appends(t) /\ ~Enabled(th[t].lvl) /\ ~PriorityEnabled(th[t].lvl)) =>
       /\ <<messages, messagesPriority>>' = <<messages, messagesPriority>>
       /\ th'[t].pc = "idle"
       /\ th'[t].ret = <<>>

\* The payload thread t hands to the sink holds no dropped entry.
NoDroppedIn(t) ==
    th[t].pc = "s_write" =>
       SeqSet(EntriesOf(th[t].msg)) \cap hist.dropped = {}

\* C10: an entry whose level satisfies neither enabler is appended to no
\* queue, is in no payload handed to the sink, and its Write returns nil.
C10_DroppedNeverSent ==
    [][/\ \A t \in Callers : Drops(t)
       /\ \A t \in Threads : NoDroppedIn(t)]_vars

C6_OwnFailureReturnsAll ==
    [][\A t \in Callers :
          (FlushFails(t) /\ th[t].ctx = "sync") =>
             Pending(errCh) \subseteq SeqSet(th'[t].ret)]_vars

\* C6, amended: an explicit Sync whose own sink call fails returns its own
\* error alone, and the errors pending on errCh stay there.
C6_OwnFailureReturnsOwn ==
    [][\A t \in Callers :
          (FlushFails(t) /\ th[t].ctx = "sync") =>
             /\ th'[t].ret = <<nFails'>>
             /\ errCh' = errCh]_vars

\* An explicit Sync failed at the sink while an error was pending on errCh.
C6_Witness ==
    \E t \in Callers :
       /\ th[t].pc = "idle" /\ th[t].op = "sync"
       /\ Len(th[t].ret) = 1 /\ th[t].ret[1] \notin hist.bg
       /\ th[t].ret[1] # EncodeError
       /\ th[t].dsnap # {}

\* The state of the core that a Sync may change.
coreState == <<delay, delayPriority, messages, messagesPriority, mutex, timer,
               sinceStarted, timers, errCh, bytes, pool>>

\* The Sync of thread t finds both queues empty in this step.
EmptySync(t) ==
    /\ th[t].pc = "s_lock" /\ th'[t].pc # "s_lock"
    /\ Len(messages) = 0 /\ Len(messagesPriority) = 0

\* C8: a Sync that finds both queues empty returns nil, calls neither sink
\* function and changes nothing of the core, however often it is called.
C8_EmptySyncIsNoOp ==
    [][\A t \in Threads :
          EmptySync(t) =>
             /\ th'[t].pc \notin {"s_write", "s_flush", "s_drain"}
             /\ ReturnedValue(t) = <<>>
             /\ coreState' = coreState
             /\ nFails' = nFails]_vars

\* Two explicit Syncs in a row found the queues empty, and left alone an
\* error that was pending on errCh.
C8_Witness ==
    /\ hist.emptySyncs = 2
    /\ errCh # <<>>
    /\ \A t \in Callers : th[t].pc = "idle" /\ th[t].ret = <<>>

\* C9: NewDelayedCore fails exactly when priorityDelay > standardDelay, and
\* otherwise gives a core with its delays set, both queues empty, no timer
\* and no pending error.
C9_ConstructorValidates ==
    [][(core = "new" /\ core' # "new") =>
          /\ core' = "err" <=> hist'.args[2] > hist'.args[1]
          /\ core' = "ok" =>
                /\ delay' = hist'.args[1]
                /\ delayPriority' = hist'.args[2]
                /\ messages' = <<>> /\ messagesPriority' = <<>>
                /\ timer' = 0
                /\ \A k \in Routines : ~timers'[k].active
                /\ errCh' = <<>>]_vars

\* A core was built with equal delays that are not zero.
C9_Witness ==
    /\ core = "ok" /\ delay = MaxDelay /\ delayPriority = MaxDelay
    /\ hist.args = <<MaxDelay, MaxDelay>>
    /\ nWrites = 0

\* ---------------------------------------------------------- fairness
\* The steps of a call that is under way in thread t: taking the mutex,
\* the two sink calls and the draining loop.
Running(t) ==
    \/ WriteLocked(t) \/ SyncLock(t)
    \/ \E ok \in BOOLEAN : SinkWrite(t, ok) \/ SinkSync(t, ok)
    \/ DrainRecv(t) \/ DrainDone(t)

\* A runnable goroutine and a call under way keep running (the Go
\* scheduler), a due timer fires and time passes.  As C7 supposes, the
\* caller keeps calling Sync; its sink calls succeed in the end because no
\* more than MaxFails sink calls fail.
Fairness ==
    /\ WF_vars(Tick)
    /\ \A k \in Routines :
          /\ WF_vars(TimerFires(k))
          /\ WF_vars(RoutineStart(k) \/ RoutineRecv(k) \/ RoutineSend(k))
          /\ WF_vars(Running(k))
    /\ WF_vars(Running(-1))
    /\ WF_vars(SyncCall(-1))

FairSpec == Spec /\ Fairness

\* Error e of a background flush is kept: it waits on errCh, or a goroutine
\* holds it to send it, or a draining Sync has received it.
Held(e) ==
    \/ e \in Pending(errCh)
    \/ \E t \in Threads : e \in SeqSet(th[t].acc)

\* Error e waits on errCh while both queues are empty and no Write is under
\* way: only a Sync after a further Write would return it.
Parked(e) ==
    /\ e \in Pending(errCh)
    /\ messages = <<>> /\ messagesPriority = <<>>
    /\ \A t \in Callers : th[t].pc = "idle"

\* No error of a background flush is discarded or overwritten.
ErrorsKept == \A e \in hist.bg : e \in hist.returned \/ Held(e)

WriteAppends(t) == t \in Callers /\ th[t].pc = "w_lock" /\ th'[t].pc # "w_lock"

\* The level is accepted by neither predicate.
IsDropped(lvl) == ~Enabled(lvl) /\ ~PriorityEnabled(lvl)

\* C11: a Write of an entry accepted by neither predicate does not arm the
\* timer: it creates no timer, leaves the time of arming alone and starts no
\* goroutine.
C11_DroppedArmsNothing ==
    [][\A t \in Callers :
          (WriteAppends(t) /\ IsDropped(th[t].lvl)) =>
             /\ timer' = timer /\ timers' = timers /\ nArm' = nArm
             /\ sinceStarted' = sinceStarted
             /\ \A g \in Routines : th'[g] = th[g]]_vars

\* The Write of thread t is the first priority Write of a batch below the
\* ceiling (the branch of line 131).
Escalates(t) ==
    /\ WriteAppends(t)
    /\ PriorityEnabled(th[t].lvl)
    /\ Len(messagesPriority) = 0
    /\ Len(messages) + Len(messagesPriority) < Ceiling

SinkCalled(t) == th[t].pc \in {"s_write", "s_flush"} /\ th'[t].pc # th[t].pc

\* No explicit Sync was called, and every entry written so far was accepted
\* by a predicate and not above ErrorLevel.
Plain == ~hist.explicit /\ ~hist.odd

C14_BackgroundFlushAtDeadline ==
    [][\A g \in Routines :
          (SinkCalled(g) /\ th[g].pc = "s_write"
             /\ ~hist.explicit /\ nFails' = 0) =>
             sinceStarted >= (IF messagesPriority # <<>> THEN delayPriority
                                                         ELSE delay)]_vars

\* The Write of thread t returns in this step, its own call of the sink's
\* Write (if any) not having failed.
WriteReturns(t) ==
    /\ t \in Callers /\ th[t].ctx = "write"
    /\ th[t].pc \notin {"idle", "s_write"}
    /\ th'[t].pc = "idle"

\* C17: when the Write of an accepted entry above ErrorLevel returns, the
\* sink's Sync has been called for a payload built after the entry was
\* queued (unless the sink's Write failed for this call); a Write at
\* ErrorLevel or below returns from its critical section without any sink
\* call.
C17_InlineFlush ==
    [][\A t \in Callers :
          /\ (WriteReturns(t) /\ th[t].lvl > ErrorLevel) =>
                th[t].ent \in hist'.synced
          /\ (WriteReturns(t) /\ th[t].lvl <= ErrorLevel) =>
                /\ th[t].pc = "w_lock"
                /\ hist'.synced = hist.synced
                /\ nFails' = nFails]_vars

\* A DPanic Write has returned nil after its inline flush, while the timer
\* it armed is not yet due.
C17_Witness ==
    \E t \in Callers :
       /\ th[t].pc = "idle" /\ th[t].op = "write" /\ th[t].ret = <<>>
       /\ th[t].lvl > ErrorLevel
       /\ th[t].ent \in hist.synced
       /\ timer # 0 /\ timers[timer].active /\ timers[timer].left > 0

\* The encoder fails in the Write thread t begins in this step.
EncodeFails(t) ==
    /\ t \in Callers /\ th[t].pc = "idle" /\ th'[t] # th[t]
    /\ hist'.encFailed # hist.encFailed

\* The entries the queues hold, by the bytes of their buffers.
QueuedEntries == {bytes[b] : b \in SeqSet(messages) \cup SeqSet(messagesPriority)}

\* C18: when the encoder fails, Write returns its error at once and leaves
\* the core as it was: the entry is in no queue, no timer is armed or reset
\* and no goroutine is started.
C18_EncodeErrorChangesNothing ==
    [][\A t \in Callers :
          EncodeFails(t) =>
             /\ th'[t].pc = "idle" /\ th'[t].ret = <<EncodeError>>
             /\ coreState' = coreState
             /\ th'[t].ent \notin QueuedEntries'
             /\ nArm' = nArm
             /\ \A g \in Routines : th'[g] = th[g]]_vars

\* A Write whose encoder failed has returned the error while an entry of
\* an earlier Write is queued and the timer runs.
C18_Witness ==
    /\ \E t \in Callers : /\ th[t].pc = "idle" /\ th[t].op = "write"
                          /\ th[t].ret = <<EncodeError>>
                          /\ th[t].ent \in hist.encFailed
    /\ Len(messages) + Len(messagesPriority) = 1
    /\ timer # 0 /\ timers[timer].active

\* ---------------------------------------------------------------- Check
\* The levels offered to Check, and the CheckedEntry it is given: without
\* a core, or with one other core added before.
CheckLevels == DebugLevel..DPanicLevel
Self == "DelayedCore"
Entries == {<<>>, <<"other">>}

\* A Check that would ask for both predicates.
CheckBoth(enab, prio, lvl, ce) ==
    IF LevelEnabled(enab, lvl) /\ LevelEnabled(prio, lvl)
       THEN Append(ce, Self)
       ELSE ce

\* Lines 92-97: ce.AddCore(ent, c) when a predicate accepts the level, ce
\* as it is otherwise.
Check(enab, prio, lvl, ce) ==
    IF LevelEnabled(enab, lvl) \/ LevelEnabled(prio, lvl)
       THEN Append(ce, Self)
       ELSE ce

\* A core with any pair of enablers is asked about any level.
CheckInit ==
    /\ core = "new"
    /\ delay = 0
    /\ delayPriority = 0
    /\ messages = <<>>
    /\ messagesPriority = <<>>
    /\ mutex = Unlocked
    /\ timer = 0
    /\ sinceStarted = 0
    /\ timers = [k \in Routines |-> NoTimer]
    /\ errCh = <<>>
    /\ bytes = [b \in BufIds |-> 0]
    /\ pool = [b \in BufIds |-> 0]
    /\ nBuf = 0
    /\ nWrites = 0
    /\ nArm = 0
    /\ nFails = 0
    /\ th = [t \in Threads |-> IF t \in Callers THEN Idle ELSE Unborn]
    /\ hist = <<>>
    /\ derived = NoDerived
    /\ checked \in [enab : CheckLevels, prio : CheckLevels, lvl : CheckLevels,
                     ce : Entries, out : {<<>>}, done : {FALSE}]

CheckCall ==
    /\ ~checked.done
    /\ checked' = [checked EXCEPT
                     !.out = Check(checked.enab, checked.prio, checked.lvl,
                                   checked.ce),
                     !.done = TRUE]
    /\ UNCHANGED <<derived, core, delay, delayPriority, messages, messagesPriority,
                   mutex, timer, sinceStarted, timers, errCh, bytes, pool,
                   nBuf, nWrites, nArm, nFails, th, hist>>

CheckSpec == CheckInit /\ [][CheckCall]_vars

\* C19: Check adds the core to the checked entry if and only if the level
\* satisfies the accept predicate or the priority predicate; the checked
\* entry is otherwise returned as it was given.
C19_CheckAdmits ==
    checked.done =>
       LET admitted == checked.lvl >= checked.enab \/ checked.lvl >= checked.prio
       IN /\ Self \in SeqSet(checked.out) <=> admitted
          /\ checked.out = IF admitted THEN checked.ce \o <<Self>>
                                       ELSE checked.ce

\* Check has admitted a level that only the priority predicate accepts.
C19_Witness ==
    /\ checked.done
    /\ checked.lvl < checked.enab /\ checked.lvl >= checked.prio
    /\ Self \in SeqSet(checked.out)

\* ------------------------------------------------------------ the queues
\* No entry is queued twice, in one queue or in both: the buffers the queues
\* hold have different contents.
NoEntryTwice ==
    LET q == messagesPriority \o messages
    IN \A i, j \in 1..Len(q) : i # j => bytes[q[i]] # bytes[q[j]]

\* C20: an entry that both predicates accept is appended to the priority
\* queue only, and no entry is ever held in both queues or twice in one.
C20_QueuedOnce ==
    /\ [][\A t \in Callers :
             (WriteAppends(t) /\ Enabled(th[t].lvl)
                /\ PriorityEnabled(th[t].lvl)) =>
                /\ messages' = messages
                /\ messagesPriority' = Append(messagesPriority, th[t].buf)]_vars
    /\ []NoEntryTwice

\* ------------------------------------------------------------ the ceiling
\* A core on which Ceiling - 1 standard entries were written at the moment
\* of the arming, none flushed yet: the entries and their buffers are
\* -1, -2, ..; the Write that armed the timer has started its goroutine.
Queued0 == [i \in 1..(Ceiling - 1) |-> -i]

CeilingInit ==
    /\ checked = NoCheck
    /\ derived = NoDerived
    /\ core = "ok"
    /\ delay \in Delays
    /\ delayPriority \in Delays
    /\ delayPriority <= delay
    /\ messages = Queued0
    /\ messagesPriority = <<>>
    /\ mutex = Unlocked
    /\ timer = MaxWrites + 1
    /\ sinceStarted = 0
    /\ timers = [k \in Routines |->
                   IF k = MaxWrites + 1
                      THEN [left |-> delay, active |-> TRUE, chan |-> FALSE]
                      ELSE NoTimer]
    /\ errCh = <<>>
    /\ bytes = [b \in SeqSet(Queued0) \cup BufIds |-> IF b < 0 THEN b ELSE 0]
    /\ pool = [b \in SeqSet(Queued0) \cup BufIds |-> 0]
    /\ nBuf = 0
    /\ nWrites = 0
    /\ nArm = 0
    /\ nFails = 0
    /\ th = [t \in Threads |->
               IF t \in Callers THEN Idle
               ELSE IF t = MaxWrites + 1 THEN [Unborn EXCEPT !.pc = "g_start"]
                                         ELSE Unborn]
    /\ hist = [args |-> <<delay, delayPriority>>, accPrio |-> <<>>,
               accStd |-> Queued0, dropped |-> {}, failedWrite |-> {},
               failed |-> {}, bg |-> {}, returned |-> {}, twice |-> {},
               lost |-> {}, emptySyncs |-> 0, explicit |-> FALSE,
               odd |-> FALSE, synced |-> {}, encFailed |-> {},
               handed |-> <<>>]

\* The steps from there, for one caller that writes standard entries and
\* entries above ErrorLevel and never calls Sync.
CeilingLevels == {InfoLevel, DPanicLevel}

CeilingNext ==
    \/ \E t \in {-1}, lvl \in CeilingLevels, b \in BufIds :
          EncodeEntry(t, lvl, TRUE, b)
    \/ \E t \in {-1} : WriteLocked(t)
    \/ \E t \in Threads : SyncLock(t)
    \/ \E t \in Threads, ok \in BOOLEAN : SinkWrite(t, ok)
    \/ \E t \in Threads, ok \in BOOLEAN : SinkSync(t, ok)
    \/ \E t \in Threads : DrainRecv(t)
    \/ \E t \in Threads : DrainDone(t)
    \/ \E g \in Routines : RoutineStart(g)
    \/ \E g \in Routines : RoutineRecv(g)
    \/ \E g \in Routines : RoutineSend(g)
    \/ \E k \in Routines : TimerFires(k)
    \/ Tick

CeilingSpec == CeilingInit /\ [][CeilingNext]_vars

\* C16: the Write that makes the two queues hold Ceiling entries resets the
\* timer to fire at once: whenever a Write leaves Ceiling or more entries
\* queued, it has reset the timer to no remaining time.
C16_CeilingWriteResets ==
    [][\A t \in Callers :
          (WriteAppends(t)
             /\ Len(messages') + Len(messagesPriority') >= Ceiling) =>
             /\ timers'[timer'].active
             /\ timers'[timer'].left = 0]_vars

\* The current timer has fired or is due.
TimerDue ==
    /\ timer # 0
    /\ timers[timer].chan \/ (timers[timer].active /\ timers[timer].left = 0)

\* A flush is under way, or the timer is due and a goroutine is there to
\* receive from it.
FlushAtOnce ==
    \/ \E t \in Threads : th[t].pc \in {"s_lock", "s_write", "s_flush"}
    \/ /\ TimerDue
       /\ \E g \in Routines :
             th[g].pc = "g_start" \/ (th[g].pc = "g_wait" /\ th[g].tm = timer)

\* C15: while the two queues hold Ceiling entries or more, the next flush is
\* on its way at once, whatever became of earlier flushes: a flush is under
\* way, or the timer is due and a goroutine waits for it.
C15_CeilingFlushesAtOnce ==
    Len(messages) + Len(messagesPriority) >= Ceiling => FlushAtOnce

\* ----------------------------------------------------------------- With
\* Lines 252-259, clone: a new DelayedCore with the four fields the literal
\* names; every other field has its zero value.
clone ==
    [NoDerived EXCEPT !.made = TRUE,
                      !.LevelEnabler = InfoLevel,   \* c.LevelEnabler
                      !.priority = WarnLevel,       \* c.priority
                      !.out = Out]                  \* c.out

\* Lines 73-78, With: the clone, whose encoder got the fields.
With ==
    /\ core = "ok"
    /\ ~derived.made
    /\ derived' = clone
    /\ UNCHANGED <<checked, core, delay, delayPriority, messages,
                   messagesPriority, mutex, timer, sinceStarted, timers, errCh,
                   bytes, pool, nBuf, nWrites, nArm, nFails, th, hist>>

\* The levels written to the derived core: none of them is above ErrorLevel.
DerivedLevels == {InfoLevel, WarnLevel}

\* Lines 103-173, a Write of the derived core at a level up to ErrorLevel,
\* as one step (its mutex is its own).  The encoder takes the buffer from
\* the pool all cores share.  The timer is made with the derived core's
\* delay and reset with its delayPriority, which are both 0: it is due when
\* it is made and whenever it is reset, and the goroutine of the arming has
\* its value to receive.
DerivedWrite(lvl, b) ==
    LET c == derived
        empty == Len(c.messages) = 0 /\ Len(c.messagesPriority) = 0
        isPrio == LevelEnabled(c.priority, lvl)
        isStd == ~isPrio /\ LevelEnabled(c.LevelEnabler, lvl)
    IN
    /\ c.made
    /\ c.delay = 0 /\ c.delayPriority = 0
    /\ nWrites < MaxWrites
    /\ nWrites' = nWrites + 1
    /\ \/ b = nBuf + 1 /\ nBuf' = b /\ pool' = pool
       \/ b <= nBuf /\ pool[b] > 0 /\ nBuf' = nBuf
          /\ pool' = [pool EXCEPT ![b] = @ - 1]
    /\ bytes' = [bytes EXCEPT ![b] = nWrites + 1]
    /\ derived' = [c EXCEPT
                     !.timer = IF empty THEN @ + 1 ELSE @,
                     !.waiting = IF empty THEN @ + 1 ELSE @,
                     !.messagesPriority = IF isPrio THEN Append(@, b) ELSE @,
                     !.messages = IF isStd THEN Append(@, b) ELSE @,
                     !.written = @ \cup {nWrites + 1}]
    /\ UNCHANGED <<checked, core, delay, delayPriority, messages,
                   messagesPriority, mutex, timer, sinceStarted, timers, errCh,
                   nArm, nFails, th, hist>>

\* Lines 177-250, a Sync of the derived core as one step: called by a caller
\* (bg FALSE) or by a goroutine whose timer has fired (bg TRUE, lines
\* 161-170); okW and okS are the outcomes of out.Write and out.Sync.  The
\* derived core's errCh is nil: the select of line 235 takes its default
\* branch, and the send of line 167 blocks for ever.
DerivedSync(bg, okW, okS) ==
    LET c == derived
        empty == Len(c.messages) = 0 /\ Len(c.messagesPriority) = 0
        ok == okW /\ okS
    IN
    /\ c.made
    /\ bg => c.waiting > 0
    /\ IF empty
          THEN /\ ok
               /\ derived' = [c EXCEPT !.waiting = IF bg THEN @ - 1 ELSE @,
                                       !.ret = IF bg THEN @ ELSE <<>>]
               /\ UNCHANGED <<pool, nFails>>
          ELSE /\ ~ok => nFails < MaxFails
               /\ pool' = FreeAll(c.messages, FreeAll(c.messagesPriority, pool))
               /\ nFails' = IF ok THEN nFails ELSE nFails + 1
               /\ derived' = [c EXCEPT
                     !.sent = BuildMsg(c.messagesPriority, c.messages, bytes),
                     !.messagesPriority = IF ok THEN <<>> ELSE @,
                     !.messages = IF ok THEN <<>> ELSE @,
                     !.waiting = IF bg THEN @ - 1 ELSE @,
                     !.blocked = IF bg /\ ~ok THEN @ \cup {nFails + 1} ELSE @,
                     !.ret = IF bg THEN @
                             ELSE IF ok THEN <<>> ELSE <<nFails + 1>>]
    /\ UNCHANGED <<checked, core, delay, delayPriority, messages,
                   messagesPriority, mutex, timer, sinceStarted, timers, errCh,
                   bytes, nBuf, nWrites, nArm, th, hist>>

\* The core and a core derived from it: one caller writes to both and calls
\* Sync of both.
WithLevels == {InfoLevel, WarnLevel}

WithNext ==
    \/ \E d \in Delays, dp \in Delays : NewDelayedCore(d, dp)
    \/ \E t \in {-1}, lvl \in WithLevels, b \in BufIds :
          EncodeEntry(t, lvl, TRUE, b)
    \/ \E t \in {-1} : WriteLocked(t)
    \/ \E t \in {-1} : SyncCall(t)
    \/ \E t \in Threads : SyncLock(t)
    \/ \E t \in Threads, ok \in BOOLEAN : SinkWrite(t, ok)
    \/ \E t \in Threads, ok \in BOOLEAN : SinkSync(t, ok)
    \/ \E t \in Threads : DrainRecv(t)
    \/ \E t \in Threads : DrainDone(t)
    \/ \E g \in Routines : RoutineStart(g)
    \/ \E g \in Routines : RoutineRecv(g)
    \/ \E g \in Routines : RoutineSend(g)
    \/ \E k \in Routines : TimerFires(k)
    \/ Tick
    \/ With
    \/ \E lvl \in DerivedLevels, b \in BufIds : DerivedWrite(lvl, b)
    \/ \E bg \in BOOLEAN, okW \in BOOLEAN, okS \in BOOLEAN :
          DerivedSync(bg, okW, okS)

WithSpec == Init /\ [][WithNext]_vars

\* C21: the core With returns has the sink, the accept predicate, the
\* priority predicate, the standard delay and the priority delay of the
\* core it was derived from.
C21_WithKeepsConfiguration ==
    derived.made =>
       /\ derived.out = Out
       /\ \A lvl \in CheckLevels :
             /\ LevelEnabled(derived.LevelEnabler, lvl) = Enabled(lvl)
             /\ LevelEnabled(derived.priority, lvl) = PriorityEnabled(lvl)
       /\ derived.delay = delay
       /\ derived.delayPriority = delayPriority

\* With is called in this step.
WithReturns == ~derived.made /\ derived'.made

\* The derived core's Write appends in this step.
DerivedAppends == derived'.written # derived.written

\* The entries the core holds in its queues, and those the derived core
\* holds in its queues, by the bytes of the queued buffers.
CoreQueues == <<BufBytes(messagesPriority, bytes), BufBytes(messages, bytes)>>
DerivedQueues == <<BufBytes(derived.messagesPriority, bytes),
                   BufBytes(derived.messages, bytes)>>

\* The core returned by With has empty queues and no timer.
WithStartsEmpty ==
    [][WithReturns =>
          /\ derived'.messages = <<>> /\ derived'.messagesPriority = <<>>
          /\ derived'.timer = 0 /\ derived'.waiting = 0]_vars

\* A Write to one core leaves the queues and the timer of the other alone.
WriteLeavesOther ==
    [][/\ (\E t \in Callers : WriteAppends(t)) =>
             /\ DerivedQueues' = DerivedQueues
             /\ derived'.timer = derived.timer
       /\ DerivedAppends =>
             /\ CoreQueues' = CoreQueues
             /\ timer' = timer /\ timers' = timers]_vars

\* No payload of the core holds an entry written to the derived core, and
\* no payload of the derived core holds an entry written to the core.
SyncSendsOwn ==
    /\ \A t \in Threads :
          th[t].pc \in {"s_write", "s_flush"} =>
             SeqSet(EntriesOf(th[t].msg)) \cap derived.written = {}
    /\ SeqSet(EntriesOf(derived.sent)) \subseteq derived.written

\* C22: the core returned by With starts with both queues empty and no
\* timer; a Write to the core or to the derived core leaves the other's
\* queues and timer as they were; a Sync of one hands no entry buffered in
\* the other to the sink.
C22_DerivedSharesNothing ==
    /\ WithStartsEmpty
    /\ WriteLeavesOther
    /\ []SyncSendsOwn

\* ------------------------------------------------------------ the payload
\* Thread t builds its payload in this step.
Builds(t) == th[t].pc = "s_lock" /\ th'[t].pc = "s_write"

\* Payload msg is laid out for the queues prio and std: the priority
\* section (header, the entries' bytes in order, two newlines) when prio is
\* not empty, then the standard section (header, the entries' bytes in
\* order) when std is not empty, and nothing else.
LaidOut(msg, prio, std, content) ==
    LET np == Len(prio)
        ns == Len(std)
        o == IF np > 0 THEN np + 3 ELSE 0
    IN /\ Len(msg) = o + (IF ns > 0 THEN ns + 1 ELSE 0)
       /\ np > 0 =>
             /\ msg[1] = PriorityHeader
             /\ \A i \in 1..np : msg[1 + i] = EntryBytes(content[prio[i]])
             /\ msg[np + 2] = Newline /\ msg[np + 3] = Newline
       /\ ns > 0 =>
             /\ msg[o + 1] = StandardHeader
             /\ \A i \in 1..ns : msg[o + 1 + i] = EntryBytes(content[std[i]])
       /\ PriorityHeader \in SeqSet(msg) <=> np > 0
       /\ StandardHeader \in SeqSet(msg) <=> ns > 0

RaceNext ==
    \/ \E d \in Delays, dp \in Delays : NewDelayedCore(d, dp)
    \/ \E t \in Callers, lvl \in Levels, b \in BufIds :
          EncodeEntry(t, lvl, TRUE, b)
    \/ \E t \in Callers : WriteLocked(t)
    \/ \E t \in Callers : SyncCall(t)
    \/ \E t \in Threads : SyncLock(t)
    \/ \E t \in Threads : SinkWrite(t, TRUE)
    \/ \E t \in Threads : SinkSync(t, TRUE)
    \/ \E t \in Threads : DrainDone(t)
    \/ \E g \in Routines : RoutineStart(g)
    \/ \E g \in Routines : RoutineRecv(g)
    \/ \E k \in Routines : TimerFires(k)
    \/ Tick

RaceSpec == Init /\ [][RaceNext]_vars

\* The entries accepted so far: written, appended to a queue.
Accepted ==
    {e \in 1..nWrites :
        /\ e \notin hist.dropped \cup hist.encFailed
        /\ \A t \in Callers : ~(th[t].pc = "w_lock" /\ th[t].ent = e)}

\* How often entry e was handed to the sink.
TimesHanded(e) == Cardinality({i \in 1..Len(hist.handed) : hist.handed[i] = e})

\* Every accepted entry was handed to the sink once, or is still queued and
\* was not handed; nothing else was handed.
HandedOnce ==
    /\ \A e \in Accepted :
          IF e \in SeqSet(hist.accPrio \o hist.accStd)
             THEN TimesHanded(e) <= 1
             ELSE TimesHanded(e) = 1
    /\ SeqSet(hist.handed) \subseteq Accepted

\* A flush that finds both queues empty hands nothing to the sink, and no
\* payload is empty.
LoserHandsNothing ==
    [][\A t \in Threads :
          /\ EmptySync(t) => (th'[t].pc # "s_write" /\ hist'.handed = hist.handed)
          /\ Builds(t) => EntriesOf(th'[t].msg) # <<>>]_vars

\* C24: with concurrent Writes, explicit Syncs and background flushes on a
\* sink that always succeeds, every accepted entry is in exactly one payload
\* handed to the sink (or still queued, in none or in the one being sent),
\* and a flush that finds the queues empty hands nothing to the sink.
C24_ExactlyOncePayload ==
    /\ []HandedOnce
    /\ LoserHandsNothing

\* Every entry written was handed to the sink, a Sync that came second has
\* found the queues empty and a goroutine has been through its flush as
\* well.
C24_Witness ==
    /\ Len(hist.handed) = MaxWrites
    /\ hist.emptySyncs > 0
    /\ \E g \in Routines : th[g].pc = "g_done"
    /\ messages = <<>> /\ messagesPriority = <<>>

\* ------------------------------------------------------------ the mutex
\* Thread u is inside a call of the sink (out.Write or out.Sync).
InSinkCall(u) == th[u].pc \in {"s_write", "s_flush"}

\* The Write of caller t, at ErrorLevel or below, waits for the mutex.
Waits(t) == th[t].pc = "w_lock" /\ th[t].lvl <= ErrorLevel

\* C25 as claimed: a Write at ErrorLevel or below is never kept waiting by a
\* sink call of another thread that is in progress.
C25_WriteNeverWaitsForSink ==
    \A t \in Callers :
       Waits(t) => ~(\E u \in Threads \ {t} : InSinkCall(u) /\ mutex = u)

\* C25, amended: a Write at ErrorLevel or below makes no sink call itself,
\* but it takes the mutex that a Sync holds from the building of the payload
\* to the end of the sink's Write and Sync: it goes on only while no sink
\* call of the core is in progress.
C25_WriteWaitsForMutex ==
    /\ [](\A u \in Threads : InSinkCall(u) => mutex = u)
    /\ [][\A t \in Callers :
             WriteAppends(t) =>
                /\ mutex = Unlocked
                /\ \A u \in Threads : ~InSinkCall(u)
                /\ th[t].lvl <= ErrorLevel =>
                      (th'[t].pc = "idle" /\ hist'.handed = hist.handed)]_vars

\* A Write at ErrorLevel or below waits for the mutex while a goroutine is
\* inside the sink's Sync.
C25_Witness ==
    \E t \in Callers, g \in Routines :
       Waits(t) /\ th[g].pc = "s_flush" /\ mutex = g

\* C26: at any moment at most one thread (caller in an explicit Sync, caller
\* in the inline Sync of a Write, goroutine) is inside a sink call of the
\* core.
C26_OneSinkCallAtATime ==
    \A u, v \in Threads : (InSinkCall(u) /\ InSinkCall(v)) => u = v

\* A goroutine is inside a sink call while the caller's Sync and another
\* goroutine's Sync wait for the mutex.
C26_Witness ==
    \E g \in Routines, h \in Routines, t \in Callers :
       /\ g # h
       /\ InSinkCall(g)
       /\ th[h].pc = "s_lock"
       /\ th[t].pc = "s_lock"

\* -------------------------------------------------------------- Idle
\* A timer of the core is still to fire.
TimerArmed == \E k \in Routines : timers[k].active

\* A goroutine waits on a timer, or is about to.
RoutineWaits == \E g \in Routines : th[g].pc \in {"g_start", "g_wait"}

\* C27: when a flush (explicit, inline or background) succeeds, which leaves
\* both queues empty, no timer is armed and no goroutine waits on a timer.
C27_IdleAfterFlush ==
    [][\A t \in Threads :
          FlushSucceeds(t) =>
             /\ messages' = <<>> /\ messagesPriority' = <<>>
             /\ ~TimerArmed'
             /\ ~RoutineWaits']_vars

\* ------------------------------------------------------------ the arming
\* The goroutine of arming k was started.
Started(k) == th[k].pc # "g_none"

\* The Write that made arming k has not returned yet.
ArmingUnderWay(k) ==
    \E t \in Callers : th[t].pc # "idle" /\ th[t].startRoutine = k

\* Every arming whose Write has returned has started its goroutine.
ArmingStartsRoutine ==
    \A k \in 1..nArm : Started(k) \/ ArmingUnderWay(k)

\* The goroutine of arming k waits on the timer of arming k.
RoutineWaitsOnOwnTimer ==
    \A k \in 1..nArm : th[k].pc = "g_wait" => th[k].tm = k

\* C28: every arming (a Write that finds both queues empty and creates a
\* timer) starts one goroutine, and that goroutine waits on the timer this
\* arming created.
C28_OneRoutinePerArming ==
    ArmingStartsRoutine /\ RoutineWaitsOnOwnTimer

\* Thread t is in a step that reads or writes a queue, c.timer or
\* c.timerStartedAt: the critical section of Write (lines 112-148), the
\* first part of Sync (lines 180-210), the clearing of the queues (lines
\* 227-228), and the goroutine's evaluation of c.timer (line 163).
CriticalSection(t) ==
    \/ WriteAppends(t)
    \/ th[t].pc = "s_lock" /\ th'[t].pc # "s_lock"
ClearsQueues(t) == FlushSucceeds(t)
ReadsTimer(t) == th[t].pc = "g_start" /\ th'[t].pc = "g_wait"

\* C29: every read and write of the queues, the timer handle and the time
\* of arming is made by a thread that holds the mutex: the step takes the
\* free mutex, or the thread holds it already; the fields change in no
\* other step.
C29_GuardedByMutex ==
    [][/\ \A t \in Threads :
             /\ CriticalSection(t) => mutex = Unlocked
             /\ ClearsQueues(t) => mutex = t
             /\ ReadsTimer(t) => mutex \in {Unlocked, t}
       /\ <<messages, messagesPriority, timer>>'
             # <<messages, messagesPriority, timer>> =>
                \E t \in Threads : CriticalSection(t) \/ ClearsQueues(t)]_vars

\* The same for Write and Sync alone, leaving the goroutine's read out.
GuardedInWriteAndSync ==
    [][/\ \A t \in Threads :
             /\ CriticalSection(t) => mutex = Unlocked
             /\ ClearsQueues(t) => mutex = t
       /\ <<messages, messagesPriority, timer>>'
             # <<messages, messagesPriority, timer>> =>
                \E t \in Threads : CriticalSection(t) \/ ClearsQueues(t)]_vars

\* ------------------------------------------------------------ the window
\* The Write of caller t finds a queue non-empty when it appends.
WritesToBatch(t) ==
    WriteAppends(t) /\ Len(messages) + Len(messagesPriority) > 0

\* What is left of the priority delay, counted from the arming.
LeftOfPriorityDelay ==
    IF delayPriority > sinceStarted THEN delayPriority - sinceStarted ELSE 0

\* C30: a Write that finds a queue non-empty leaves the time of arming as
\* it is and creates no timer and no goroutine; when it is the first
\* priority Write of the batch (below the ceiling) the timer is reset to
\* what is left of delayPriority counted from the arming, not from this
\* Write.
C30_BatchWriteKeepsWindow ==
    [][\A t \in Callers :
          WritesToBatch(t) =>
             /\ sinceStarted' = sinceStarted
             /\ timer' = timer /\ nArm' = nArm
             /\ \A g \in Routines : th'[g] = th[g]
             /\ Escalates(t) =>
                   /\ timers'[timer].active
                   /\ timers'[timer].left = LeftOfPriorityDelay
             /\ \A k \in Routines : k # timer => timers'[k] = timers[k]]_vars

\* A priority Write was appended to a batch whose timer was armed MaxDelay
\* ago: the timer is due at once, although delayPriority is not zero.
C30_Witness ==
    \E t \in Callers :
       /\ th[t].pc = "idle" /\ th[t].op = "write" /\ th[t].lvl = WarnLevel
       /\ Len(messages) = 1 /\ Len(messagesPriority) = 1
       /\ bytes[messagesPriority[1]] = th[t].ent
       /\ delayPriority = MaxDelay /\ sinceStarted = MaxDelay
       /\ nArm = 1 /\ timer = 1
       /\ timers[1].active /\ timers[1].left = 0

\* ------------------------------------------------- the mutex after Sync
\* C31: Sync releases the mutex on every return path (empty queues, error of
\* the sink's Write, error of the sink's Sync, success): the mutex is held
\* only by a thread that is inside its Sync, between the building of the
\* payload and the end of the sink calls, and by no thread whose call has
\* returned.
C31_MutexReleasedOnReturn ==
    mutex # Unlocked => InSinkCall(mutex)

\* After a Sync that failed in the sink's Write and one that failed in the
\* sink's Sync, a Write and an explicit Sync have taken the mutex and the
\* flush has succeeded.
C31_Witness ==
    /\ nFails = MaxFails
    /\ hist.failedWrite = {} /\ hist.synced # {}
    /\ Len(hist.handed) > MaxFails
    /\ mutex = Unlocked
    /\ messages = <<>> /\ messagesPriority = <<>>
    /\ \E t \in Callers : th[t].pc = "idle" /\ th[t].op = "sync"

\* ---------------------------------------------- the core of package cores
\* Sync of the delayed core of package cores (unitTestConf.go, lines
\* 210-280): its Write, its goroutine and the first part of its Sync are
\* those of DelayedCore; the returns after a failed sink.Write (line 248)
\* and a failed sink.Sync (line 254) have no Unlock.
CoresSinkWrite(t, ok) ==
    IF ok THEN SinkWrite(t, TRUE)
          ELSE th[t].pc = "s_write" /\ CoresSinkFails(t)

CoresSinkSync(t, ok) ==
    IF ok THEN SinkSync(t, TRUE)
          ELSE th[t].pc = "s_flush" /\ CoresSinkFails(t)

\* The steps of that core with one caller.  No Sync reaches the draining
\* loop once a goroutine's flush has failed, so no error is ever received
\* from errCh.
CoresNext ==
    \/ \E d \in Delays, dp \in Delays : NewDelayedCore(d, dp)
    \/ \E t \in {-1}, lvl \in Levels, encOk \in BOOLEAN, b \in BufIds :
          EncodeEntry(t, lvl, encOk, b)
    \/ \E t \in {-1} : WriteLocked(t)
    \/ \E t \in {-1} : SyncCall(t)
    \/ \E t \in Threads : SyncLock(t)
    \/ \E t \in Threads, ok \in BOOLEAN : CoresSinkWrite(t, ok)
    \/ \E t \in Threads, ok \in BOOLEAN : CoresSinkSync(t, ok)
    \/ \E t \in Threads : DrainDone(t)
    \/ \E g \in Routines : RoutineStart(g)
    \/ \E g \in Routines : RoutineRecv(g)
    \/ \E g \in Routines : RoutineSend(g)
    \/ \E k \in Routines : TimerFires(k)
    \/ Tick

CoresSpec == Init /\ [][CoresNext]_vars

\* C32: in the delayed core of package cores, a Sync whose sink write or
\* sink flush returns an error has released the mutex when it returns.
C32_CoresSyncUnlocksOnError ==
    [][\A t \in Threads : FlushFails(t) => mutex' = Unlocked]_vars

\* A Write or a Sync waits for the mutex, which a thread holds whose Sync
\* has returned: it waits for ever.
CoresBlockedForEver ==
    /\ mutex # Unlocked /\ ~InSinkCall(mutex)
    /\ \E t \in Threads : th[t].pc \in {"w_lock", "s_lock"}

\* ------------------------------------------------------------ the buffers
\* No buffer a queue holds is in the pool.
NoQueuedBufferFreed ==
    \A b \in SeqSet(messagesPriority) \cup SeqSet(messages) : pool[b] = 0

\* The buffers of each queue hold the entries that were appended to it, in
\* that order.
QueuesKeepBytes ==
    /\ [i \in 1..Len(messagesPriority) |-> bytes[messagesPriority[i]]]
          = hist.accPrio
    /\ [i \in 1..Len(messages) |-> bytes[messages[i]]] = hist.accStd

\* C33: no buffer is given back to the pool while a queue holds it, so the
\* queued buffers keep the bytes that were encoded for their entries, also
\* after a flush that failed at the sink, and no later Write is encoded into
\* the buffer of a queued entry.
C33_NoFreeWhileQueued ==
    /\ []NoQueuedBufferFreed
    /\ []QueuesKeepBytes
    /\ [][\A t \in Callers :
             (th[t].pc = "idle" /\ th'[t].pc = "w_lock") =>
                th'[t].buf \notin SeqSet(messagesPriority) \cup SeqSet(messages)]_vars

\* ------------------------------------------------------------ the retry
\* A flush is under way: a thread is in Sync before its sink calls ended.
FlushRunning == \E t \in Threads : th[t].pc \in {"s_lock", "s_write", "s_flush"}

\* A goroutine waits on the current timer, or was started and will.
RoutineOnCurrentTimer ==
    \E g \in Routines :
       th[g].pc = "g_start" \/ (th[g].pc = "g_wait" /\ th[g].tm = timer)

\* C34: whenever a queue is not empty and no flush is running, a goroutine
\* waits on the current timer, so that entries kept after a failed
\* background flush are flushed again by a timer, without an explicit Sync
\* and without a Write above ErrorLevel.
C34_RetainedEntriesRetried ==
    (Len(messages) + Len(messagesPriority) > 0 /\ ~FlushRunning)
       => RoutineOnCurrentTimer

\* The case of the claim: a background flush has failed, no explicit Sync
\* was called and no entry above ErrorLevel or dropped entry was written;
\* the entries are queued and no goroutine is left, started or waiting.
RetainedWithoutRoutine ==
    /\ hist.bg # {} /\ Plain
    /\ Len(messages) + Len(messagesPriority) > 0
    /\ ~FlushRunning
    /\ \A g \in Routines : th[g].pc \in {"g_none", "g_done"}

\* From there on no goroutine is started and no flush begins, whatever
\* Writes at ErrorLevel or below follow, until an explicit Sync is called.
NoRetryWithoutSync ==
    [][(RetainedWithoutRoutine /\ Plain') => RetainedWithoutRoutine']_vars

\* ------------------------------------------------------- the goroutines
\* C35: every goroutine that was started ends: it receives the firing of its
\* timer, makes its flush attempt, posts the error if there is one, and is
\* done; it waits for ever neither on a timer nor on errCh.
C35_RoutinesTerminate ==
    \A g \in Routines : (th[g].pc = "g_start") ~> (th[g].pc = "g_done")

\* Two goroutines wait on one timer, which has fired once: one of them has
\* received the value, the other one waits on a timer that is not to fire.
WaitsOnSpentTimer ==
    \E g \in Routines, h \in Routines :
       /\ g # h
       /\ th[g].pc = "g_wait" /\ th[g].tm = g + 1
       /\ th[h].pc = "g_done" /\ h = g + 1
       /\ ~timers[g + 1].active /\ ~timers[g + 1].chan

\* C36: when no dropped entry and no entry above ErrorLevel was written, a
\* goroutine that flushes a batch is the goroutine of the arming of that
\* batch (the last arming) and does so not before (time of that arming +
\* delayPriority), also when an explicit Sync has emptied the queues between
\* two batches.
C36_NoFlushByEarlierArming ==
    [][\A g \in Routines :
          (Builds(g) /\ ~hist.odd) =>
             /\ g = timer
             /\ sinceStarted >= delayPriority]_vars

\* The goroutine of the first arming flushes the second batch at the very
\* moment that batch was armed, an explicit Sync having flushed the first.
EarlyFlushAfterSync ==
    /\ hist.explicit /\ ~hist.odd /\ nFails = 0
    /\ delayPriority = MaxDelay /\ sinceStarted = 0
    /\ timer = 2 /\ th[1].pc = "s_write"
    /\ hist.handed = <<1>> /\ EntriesOf(th[1].msg) = <<2>>

\* ------------------------------------------- errors of the derived core
\* The errors waiting on the derived core's errCh.
DerivedPending ==
    IF derived.errCh = None THEN {} ELSE Pending(derived.errCh)

\* C37: on a core returned by With, the error of a failed background flush
\* is kept on that core's errCh or was returned by a Sync of that core; the
\* goroutine does not stay behind holding it.
C37_DerivedErrorsKept ==
    \A e \in derived.blocked :
       e \in DerivedPending \/ e \in SeqSet(derived.ret)

\* A background flush of the derived core has failed, and an explicit Sync
\* of the derived core has then flushed the entry and returned nil.
DerivedErrorNeverReturned ==
    /\ derived.blocked # {}
    /\ derived.messages = <<>> /\ derived.messagesPriority = <<>>
    /\ derived.sent # <<>> /\ derived.ret = <<>>
    /\ derived.waiting = 0

====
